---- MODULE Spec2Model ----
(***************************************************************************)
(* Model of TestBuild/server.py, the Flask server of the NSU Commute       *)
(* Optimizer: the module start-up, the three routes (/, /api/<filename>,   *)
(* /health), the two error handlers, and the files they read.              *)
(*                                                                         *)
(* A file name is a sequence of one-character strings, so that             *)
(* str.endswith is computed on the characters.  A request path is the      *)
(* sequence of its segments (the text between the slashes).  A file's      *)
(* bytes are a content number 1..MaxContent, and Absent where there is no  *)
(* file.  The server is started in its own directory, so DATA_DIR and '.'  *)
(* of send_from_directory and of the os calls are the same places.         *)
(*                                                                         *)
(* The files are managed by the environment (the Env actions): the entry   *)
(* document and the data files are added, replaced and removed, the data   *)
(* directory is removed and made again, at any moment, also between two    *)
(* system calls of one request.                                            *)
(***************************************************************************)
EXTENDS Naturals, Sequences, FiniteSets

\* ----------------------------------------------------------------- bounds
\* File contents are 1..MaxContent.
MaxContent == 2
\* Requests in progress at once (the development server is threaded).
NumWorkers == 2

\* ------------------------------------------------------------- constants
Absent == 0
Contents == 1..MaxContent
Workers == 1..NumWorkers

DATA_DIR == "data"
ROOT_DIR == "."
HTML_FILE == <<"i", "n", "d", "e", "x", ".", "h", "t", "m", "l">>
CsvSuffix == <<".", "c", "s", "v">>
HtmlSuffix == <<".", "h", "t", "m", "l">>

\* The names the model puts on disk and in requests.
LocationsCsv == <<"L", ".", "c", "s", "v">>
NotesTxt == <<"n", ".", "t", "x", "t">>
SecretCsv == <<"s", ".", "c", "s", "v">>
DotDot == <<".", ".">>
SegApi == <<"a", "p", "i">>
SegHealth == <<"h", "e", "a", "l", "t", "h">>

\* Files the environment keeps in the data directory.
DataNames == {LocationsCsv, NotesTxt}
\* A file beside the server, outside the data directory; its bytes are
\* SecretContent, which no data file holds.
SecretContent == MaxContent + 1

\* The requests the model sends: GET of each of these paths.
RequestPaths ==
    { <<>>,
      <<SegHealth>>,
      <<SegApi, LocationsCsv>>,
      <<SegApi, NotesTxt>>,
      <<SegApi, SecretCsv>>,
      <<SegApi, DotDot, SecretCsv>>,
      <<NotesTxt>> }
\* The Origin header of a request; "" is a request without one.
Origins == {"", "http://o"}

VARIABLES
    started,   \* the module body (lines 10-21) has run
    debug,     \* Flask's debug flag: TRUE under app.run(debug=True)
    fs,        \* the files: [index, dir, files]
    reqs,      \* per worker: the path it serves and how far it is
    sent,      \* the last response sent, with the request it answers
    seen       \* history: what the request named held when sent was sent

vars == <<started, debug, fs, reqs, sent, seen>>

\* --------------------------------------------------------- pure functions
\* str.endswith
EndsWith(s, suffix) ==
    /\ Len(s) >= Len(suffix)
    /\ SubSeq(s, Len(s) - Len(suffix) + 1, Len(s)) = suffix

\* os.path.exists(DATA_DIR)
DirExists(f) == f.dir

\* os.listdir(DATA_DIR), for an existing directory
ListDir(f) == {n \in DataNames : f.files[n] # Absent}

\* The bytes at directory/name, Absent when there is no such file.
Lookup(f, directory, name) ==
    IF directory = DATA_DIR
    THEN IF f.dir /\ name \in DataNames THEN f.files[name] ELSE Absent
    ELSE IF name = HTML_FILE THEN f.index
         ELSE IF name = SecretCsv THEN SecretContent
         ELSE Absent

\* werkzeug's safe_join on one path segment: no segment holds a slash, so
\* the only name that leaves the directory is "..".
SafeJoin(directory, name) ==
    IF name = DotDot THEN <<>> ELSE <<directory, name>>

\* os.path.isfile(safe_join(directory, name)) in send_from_directory
IsFile(f, directory, name) ==
    /\ SafeJoin(directory, name) # <<>>
    /\ Lookup(f, directory, name) # Absent

\* mimetypes.guess_type, used when send_from_directory gets no mimetype
GuessType(name) ==
    IF EndsWith(name, HtmlSuffix) THEN "text/html"
    ELSE IF EndsWith(name, CsvSuffix) THEN "text/csv"
    ELSE "application/octet-stream"

\* ---------------------------------------------------------------- responses
\* A response: status, content type, body and the Access-Control-Allow-Origin
\* header ("" when the response has none).  The body is file bytes, a JSON
\* object with an "error" message, the JSON health report, or the HTML page
\* of werkzeug's debugger.
NoResponse ==
    [status |-> 0, ctype |-> "", kind |-> "none", bytes |-> Absent,
     error |-> <<>>, files |-> {}, acao |-> ""]

FileResponse(c, mimetype) ==
    [NoResponse EXCEPT !.status = 200, !.ctype = mimetype, !.kind = "bytes",
                       !.bytes = c]

\* jsonify({"error": msg}), status
JsonError(msg, status) ==
    [NoResponse EXCEPT !.status = status, !.ctype = "application/json",
                       !.kind = "json_error", !.error = msg]

\* jsonify({"status": "healthy", "version": "3.0", "data_files": listing})
JsonHealth(listing) ==
    [NoResponse EXCEPT !.status = 200, !.ctype = "application/json",
                       !.kind = "json_health", !.files = listing]

\* @app.errorhandler(404): what a werkzeug NotFound becomes
not_found == JsonError(<<"Resource not found">>, 404)

\* @app.errorhandler(500)
internal_error == JsonError(<<"Internal server error">>, 500)

\* werkzeug's debugger page for an exception that left the application
DebuggerPage ==
    [NoResponse EXCEPT !.status = 500, !.ctype = "text/html",
                       !.kind = "debugger"]

\* CORS(app): flask_cors's after_request hook.  With the default options the
\* header is the request's Origin, or * for a request without one.
Cors(resp, origin) ==
    [resp EXCEPT !.acao = IF origin = "" THEN "*" ELSE origin]

\* Flask's handle_exception for an exception that is no HTTPException: in
\* debug mode it is raised again and werkzeug's debugger answers; otherwise
\* the 500 handler's response goes through the after_request hooks.
HandleException(origin) ==
    IF debug THEN DebuggerPage ELSE Cors(internal_error, origin)

\* The route table: the view a path is dispatched to.
Route(path) ==
    IF path = <<>> THEN "index"
    ELSE IF path = <<SegHealth>> THEN "health"
    ELSE IF Len(path) = 2 /\ path[1] = SegApi THEN "serve_csv"
    ELSE "none"

\* ------------------------------------------------------------------ state
Idle == [pc |-> "idle", path |-> <<>>]

NoneSent == [path |-> <<>>, origin |-> "", resp |-> NoResponse]

\* The data directory of f holds a file called name.
InDataDir(f, name) == f.dir /\ name \in DataNames /\ f.files[name] # Absent

\* What GET p is about, in the files f: the bytes of the file it names
\* (index.html for /, the data file for /api/<name>; Absent when there is
\* none), and for /health whether the data directory exists and its listing.
Observed(p, f) ==
    [bytes |-> IF p = <<>> THEN f.index
               ELSE IF Len(p) = 2 /\ p[1] = SegApi /\ InDataDir(f, p[2])
                    THEN f.files[p[2]]
                    ELSE Absent,
     dir   |-> p = <<SegHealth>> /\ f.dir,
     files |-> IF p = <<SegHealth>> /\ f.dir THEN ListDir(f) ELSE {}]

FsStates ==
    { f \in [index : {Absent} \cup Contents, dir : BOOLEAN,
             files : [DataNames -> {Absent} \cup Contents]] :
        ~f.dir => \A n \in DataNames : f.files[n] = Absent }

Init ==
    /\ started = FALSE
    /\ debug \in BOOLEAN
    /\ fs \in FsStates
    /\ reqs = [w \in Workers |-> Idle]
    /\ sent = NoneSent
    /\ seen = Observed(<<>>, [index |-> Absent, dir |-> FALSE,
                              files |-> [n \in DataNames |-> Absent]])

\* Worker w sends resp in answer to GET p with Origin o, and is free again.
Send(w, p, o, resp) ==
    /\ sent' = [path |-> p, origin |-> o, resp |-> resp]
    /\ seen' = Observed(p, fs)
    /\ reqs' = [reqs EXCEPT ![w] = Idle]

\* Worker w goes on with GET p at the next step of its view.
Goto(w, p, pc) ==
    /\ reqs' = [reqs EXCEPT ![w] = [pc |-> pc, path |-> p]]
    /\ UNCHANGED <<sent, seen>>

\* ---------------------------------------------------------------- start-up
\* if not os.path.exists(DATA_DIR): os.makedirs(DATA_DIR)
Startup ==
    /\ ~started
    /\ started' = TRUE
    /\ fs' = IF DirExists(fs) THEN fs ELSE [fs EXCEPT !.dir = TRUE]
    /\ UNCHANGED <<debug, reqs, sent, seen>>

\* ---------------------------------------------------------------- requests
\* Each view's first action takes a request as it arrives: a free worker
\* and a path the route table gives to that view.  Only the after_request
\* hook reads the request's Origin header, so the model draws the header in
\* the action that sends the response.

\* No rule matches: routing raises NotFound, which the 404 handler answers.
Unmatched(w) ==
    /\ started
    /\ reqs[w].pc = "idle"
    /\ \E p \in RequestPaths, o \in Origins :
          /\ Route(p) = "none"
          /\ Send(w, p, o, Cors(not_found, o))
    /\ UNCHANGED <<started, debug, fs>>

\* index(), first half: send_from_directory('.', HTML_FILE) finds no file
\* and raises NotFound, which is no FileNotFoundError and goes to the 404
\* handler; or it finds the file and goes on to send_file.
Index(w) ==
    /\ started
    /\ reqs[w].pc = "idle"
    /\ \E p \in RequestPaths, o \in Origins :
          /\ Route(p) = "index"
          /\ IF IsFile(fs, ROOT_DIR, HTML_FILE)
             THEN Goto(w, p, "index_open")
             ELSE Send(w, p, o, Cors(not_found, o))
    /\ UNCHANGED <<started, debug, fs>>

\* Mutant: index() without its try/except, so that the FileNotFoundError of
\* send_file is an unhandled exception.
IndexOpenUncaught(w) ==
    /\ reqs[w].pc = "index_open"
    /\ LET c == Lookup(fs, ROOT_DIR, HTML_FILE)
       IN  \E o \in Origins :
              Send(w, reqs[w].path, o,
                   IF c # Absent
                   THEN Cors(FileResponse(c, GuessType(HTML_FILE)), o)
                   ELSE HandleException(o))
    /\ UNCHANGED <<started, debug, fs>>

\* Mutant: index() keeps the bytes it read in a module-level buffer and
\* sends the buffer of the response before it when there is one.
IndexOpenShared(w) ==
    /\ reqs[w].pc = "index_open"
    /\ LET c == Lookup(fs, ROOT_DIR, HTML_FILE)
           b == IF sent.resp.kind = "bytes" THEN sent.resp.bytes ELSE c
           r == IF c # Absent
                THEN FileResponse(b, GuessType(HTML_FILE))
                ELSE JsonError(<<"index.html not found">>, 404)
       IN  \E o \in Origins : Send(w, reqs[w].path, o, Cors(r, o))
    /\ UNCHANGED <<started, debug, fs>>

\* index(), second half: send_file stats and opens the file.  A file removed
\* since the isfile test raises FileNotFoundError, which the view catches.
IndexOpen(w) ==
    /\ reqs[w].pc = "index_open"
    /\ LET c == Lookup(fs, ROOT_DIR, HTML_FILE)
           r == IF c # Absent
                THEN FileResponse(c, GuessType(HTML_FILE))
                ELSE JsonError(<<"index.html not found">>, 404)
       IN  \E o \in Origins : Send(w, reqs[w].path, o, Cors(r, o))
    /\ UNCHANGED <<started, debug, fs>>

\* Mutant: serve_csv reads from '.', as index() does.
ServeCsvRoot == ROOT_DIR
\* The directory serve_csv reads from.
ServeCsvDir == DATA_DIR

\* Mutant: no suffix test.
AllowedAll(filename) == TRUE
\* if not filename.endswith('.csv')
Allowed(filename) == EndsWith(filename, CsvSuffix)

\* serve_csv(filename), first half: the suffix test, then
\* send_from_directory's isfile test.
ServeCsv(w) ==
    /\ started
    /\ reqs[w].pc = "idle"
    /\ \E p \in RequestPaths, o \in Origins :
          /\ Route(p) = "serve_csv"
          /\ LET filename == p[2]
             IN  IF ~Allowed(filename)
                 THEN Send(w, p, o,
                           Cors(JsonError(<<"Only CSV files allowed">>, 403),
                                o))
                 ELSE IF IsFile(fs, ServeCsvDir, filename)
                      THEN Goto(w, p, "csv_open")
                      ELSE Send(w, p, o, Cors(not_found, o))
    /\ UNCHANGED <<started, debug, fs>>

\* Mutant: serve_csv answers from a cache of the file it sent last.
ServeCsvOpenCached(w) ==
    /\ reqs[w].pc = "csv_open"
    /\ LET filename == reqs[w].path[2]
           c == Lookup(fs, ServeCsvDir, filename)
           b == IF sent.path = reqs[w].path /\ sent.resp.kind = "bytes"
                THEN sent.resp.bytes ELSE c
           r == IF c # Absent
                THEN FileResponse(b, "text/csv")
                ELSE JsonError(filename \o <<" not found">>, 404)
       IN  \E o \in Origins : Send(w, reqs[w].path, o, Cors(r, o))
    /\ UNCHANGED <<started, debug, fs>>

\* Mutant: serve_csv without its try/except.
ServeCsvOpenUncaught(w) ==
    /\ reqs[w].pc = "csv_open"
    /\ LET filename == reqs[w].path[2]
           c == Lookup(fs, ServeCsvDir, filename)
       IN  \E o \in Origins :
              Send(w, reqs[w].path, o,
                   IF c # Absent
                   THEN Cors(FileResponse(c, "text/csv"), o)
                   ELSE HandleException(o))
    /\ UNCHANGED <<started, debug, fs>>

\* serve_csv(filename), second half: send_file with mimetype='text/csv'.
ServeCsvOpen(w) ==
    /\ reqs[w].pc = "csv_open"
    /\ LET filename == reqs[w].path[2]
           c == Lookup(fs, ServeCsvDir, filename)
           r == IF c # Absent
                THEN FileResponse(c, "text/csv")
                ELSE JsonError(filename \o <<" not found">>, 404)
       IN  \E o \in Origins : Send(w, reqs[w].path, o, Cors(r, o))
    /\ UNCHANGED <<started, debug, fs>>

\* Mutant: health() makes the data directory when it finds none.
HealthMakedirs(w) ==
    /\ started
    /\ reqs[w].pc = "idle"
    /\ \E p \in RequestPaths :
          /\ Route(p) = "health"
          /\ Goto(w, p, "health_listdir")
    /\ fs' = [fs EXCEPT !.dir = TRUE]
    /\ UNCHANGED <<started, debug>>

\* health(), first half: os.path.exists(DATA_DIR)
Health(w) ==
    /\ started
    /\ reqs[w].pc = "idle"
    /\ \E p \in RequestPaths, o \in Origins :
          /\ Route(p) = "health"
          /\ IF DirExists(fs)
             THEN Goto(w, p, "health_listdir")
             ELSE Send(w, p, o, Cors(JsonHealth({}), o))
    /\ UNCHANGED <<started, debug, fs>>

\* health(), second half: os.listdir(DATA_DIR).  A directory removed since
\* the exists test raises FileNotFoundError, which nothing catches.
HealthListdir(w) ==
    /\ reqs[w].pc = "health_listdir"
    /\ \E o \in Origins :
          Send(w, reqs[w].path, o,
               IF DirExists(fs)
               THEN Cors(JsonHealth(ListDir(fs)), o)
               ELSE HandleException(o))
    /\ UNCHANGED <<started, debug, fs>>

\* -------------------------------------------------------------- environment
EnvPutIndex ==
    /\ \E c \in Contents : c # fs.index /\ fs' = [fs EXCEPT !.index = c]
    /\ UNCHANGED <<started, debug, reqs, sent, seen>>

EnvRemoveIndex ==
    /\ fs.index # Absent
    /\ fs' = [fs EXCEPT !.index = Absent]
    /\ UNCHANGED <<started, debug, reqs, sent, seen>>

EnvPutData ==
    /\ fs.dir
    /\ \E n \in DataNames, c \in Contents :
          /\ c # fs.files[n]
          /\ fs' = [fs EXCEPT !.files[n] = c]
    /\ UNCHANGED <<started, debug, reqs, sent, seen>>

EnvRemoveData ==
    /\ \E n \in DataNames :
          /\ fs.files[n] # Absent
          /\ fs' = [fs EXCEPT !.files[n] = Absent]
    /\ UNCHANGED <<started, debug, reqs, sent, seen>>

EnvRemoveDir ==
    /\ fs.dir
    /\ fs' = [fs EXCEPT !.dir = FALSE,
                        !.files = [n \in DataNames |-> Absent]]
    /\ UNCHANGED <<started, debug, reqs, sent, seen>>

EnvMakeDir ==
    /\ ~fs.dir
    /\ fs' = [fs EXCEPT !.dir = TRUE]
    /\ UNCHANGED <<started, debug, reqs, sent, seen>>

Serve ==
    \E w \in Workers :
        \/ Unmatched(w)
        \/ Index(w)
        \/ IndexOpen(w)
        \/ ServeCsv(w)
        \/ ServeCsvOpen(w)
        \/ Health(w)
        \/ HealthListdir(w)

Env ==
    \/ EnvPutIndex
    \/ EnvRemoveIndex
    \/ EnvPutData
    \/ EnvRemoveData
    \/ EnvRemoveDir
    \/ EnvMakeDir

Next == Startup \/ Serve \/ Env

Spec == Init /\ [][Next]_vars

\* The files stay as they are once the server has started.
NextFixed == Startup \/ Serve

SpecFixed == Init /\ [][NextFixed]_vars

\* ------------------------------------------------------------------ claims
\* sent is the last response and seen what its request named at the moment
\* it was sent, so an invariant over the two speaks of every response at the
\* time it is sent.
IsJsonError(resp, status) ==
    /\ resp.status = status
    /\ resp.ctype = "application/json"
    /\ resp.kind = "json_error"
    /\ resp.error # <<>>

Answered == sent.resp.kind # "none"

\* C1: a request GET /api/<filename> whose filename does not end in .csv is
\* answered 403 with a JSON error body, whether or not the data directory
\* holds a file of that name, and is answered before any file is looked up
\* (no worker goes on to open a file for such a name).
C1_NonCsvForbidden ==
    /\ \A w \in Workers :
          reqs[w].pc = "csv_open" => EndsWith(reqs[w].path[2], CsvSuffix)
    /\ ( /\ Answered
         /\ Len(sent.path) = 2
         /\ sent.path[1] = SegApi
         /\ ~EndsWith(sent.path[2], CsvSuffix) )
          => IsJsonError(sent.resp, 403)

\* C1, witness: /api/n.txt was answered 403 when the data directory held
\* n.txt.
C1_Witness ==
    /\ sent.path = <<SegApi, NotesTxt>>
    /\ IsJsonError(sent.resp, 403)
    /\ seen.bytes # Absent

\* C2: an answer to GET /api/<name>.csv sent while the data directory holds
\* that file is 200, text/csv, with the bytes the file holds at that moment.
C2_CsvServedCurrent ==
    ( /\ Answered
      /\ Len(sent.path) = 2
      /\ sent.path[1] = SegApi
      /\ EndsWith(sent.path[2], CsvSuffix)
      /\ seen.bytes # Absent )
       => /\ sent.resp.status = 200
          /\ sent.resp.ctype = "text/csv"
          /\ sent.resp.kind = "bytes"
          /\ sent.resp.bytes = seen.bytes

\* C2, witness: L.csv was served with the bytes it held at that moment.
C2_Witness ==
    /\ sent.path = <<SegApi, LocationsCsv>>
    /\ sent.resp.status = 200
    /\ sent.resp.bytes = MaxContent
    /\ seen.bytes = MaxContent

\* C3: an answer to GET /api/<name>.csv sent while the data directory holds
\* no such file is 404 with a JSON error body.
C3_MissingCsvNotFound ==
    ( /\ Answered
      /\ Len(sent.path) = 2
      /\ sent.path[1] = SegApi
      /\ EndsWith(sent.path[2], CsvSuffix)
      /\ seen.bytes = Absent )
       => IsJsonError(sent.resp, 404)

\* C3, witness: L.csv was removed between the isfile test and the open, and
\* the view's except clause answered.
C3_Witness ==
    /\ sent.path = <<SegApi, LocationsCsv>>
    /\ IsJsonError(sent.resp, 404)
    /\ sent.resp.error = LocationsCsv \o <<" not found">>

\* C4: every answer to GET /health is 200 and its data_files are the listing
\* of the data directory at that moment, empty when there is no directory.
C4_HealthAlways200 ==
    (Answered /\ sent.path = <<SegHealth>>)
       => /\ sent.resp.status = 200
          /\ sent.resp.kind = "json_health"
          /\ sent.resp.files = seen.files

\* C5: an answer to GET / is 404 with a JSON error body when index.html is
\* absent, never 500, and 200 with the file's bytes as text/html when it is
\* there.
C5_IndexNotFound ==
    (Answered /\ sent.path = <<>>)
       => IF seen.bytes = Absent
          THEN IsJsonError(sent.resp, 404)
          ELSE /\ sent.resp.status = 200
               /\ sent.resp.ctype = "text/html"
               /\ sent.resp.kind = "bytes"
               /\ sent.resp.bytes = seen.bytes

\* C5, witness: GET / was answered 404 with a JSON error body.
C5_Witness ==
    /\ sent.path = <<>>
    /\ seen.bytes = Absent
    /\ IsJsonError(sent.resp, 404)

\* C6: every response sent carries an Access-Control-Allow-Origin header.
C6_CorsOnEveryResponse ==
    Answered => sent.resp.acao # ""

\* C7: every response with an error status is 403, 404 or 500 and is a JSON
\* object with an error message; an unmatched path is answered 404.
C7_ErrorsAreJson ==
    /\ sent.resp.status >= 400
          => \E s \in {403, 404, 500} : IsJsonError(sent.resp, s)
    /\ (Answered /\ Route(sent.path) = "none")
          => IsJsonError(sent.resp, 404)

\* C8: no step of a request changes a file or a directory; the start-up
\* leaves the data directory existing, changes nothing else, and changes
\* nothing at all when the directory was there.
C8_ReadOnly ==
    [][/\ (reqs' # reqs \/ sent' # sent \/ seen' # seen) => fs' = fs
       /\ started' # started
             => /\ fs'.dir
                /\ fs'.index = fs.index
                /\ fs'.files = fs.files
                /\ fs.dir => fs' = fs]_vars

\* C8, witness: the server has started and answered a request out of the
\* data directory.
C8_Witness ==
    /\ started
    /\ fs.dir
    /\ sent.resp.kind = "json_health"
    /\ sent.resp.files # {}

\* The response to GET p with Origin o when it is the only request served
\* and the files are f: each view run from its first line to its return.
ServedAlone(p, o, f) ==
    LET acao == IF o = "" THEN "*" ELSE o
        r == IF p = <<>>
             THEN IF f.index # Absent
                  THEN FileResponse(f.index, "text/html")
                  ELSE JsonError(<<"Resource not found">>, 404)
             ELSE IF p = <<SegHealth>>
             THEN JsonHealth(IF f.dir THEN ListDir(f) ELSE {})
             ELSE IF Len(p) = 2 /\ p[1] = SegApi
             THEN IF ~EndsWith(p[2], CsvSuffix)
                  THEN JsonError(<<"Only CSV files allowed">>, 403)
                  ELSE IF InDataDir(f, p[2])
                       THEN FileResponse(f.files[p[2]], "text/csv")
                       ELSE JsonError(<<"Resource not found">>, 404)
             ELSE JsonError(<<"Resource not found">>, 404)
    IN  [r EXCEPT !.acao = acao]

\* C9: with the files fixed, the response to a request is the one it gets
\* when served alone, whatever was served before it and whatever is in
\* progress beside it.
C9_Independent ==
    Answered => sent.resp = ServedAlone(sent.path, sent.origin, fs)

\* C9, witness: a file was sent while another request was in progress.
C9_Witness ==
    /\ sent.resp.kind = "bytes"
    /\ \E w \in Workers : reqs[w].pc = "health_listdir"

\* C10: a 200 answer to a path under /api/ carries the bytes of a file the
\* data directory holds, and a path with a parent-directory segment is
\* answered 404.
C10_NoEscape ==
    (Answered /\ Len(sent.path) >= 1 /\ sent.path[1] = SegApi)
       => /\ sent.resp.status = 200
             => /\ seen.bytes # Absent
                /\ sent.resp.bytes = seen.bytes
          /\ (\E i \in 1..Len(sent.path) : sent.path[i] = DotDot)
             => sent.resp.status = 404

\* C10, witness: /api/../s.csv was answered 404 while s.csv lies beside the
\* server.
C10_Witness ==
    /\ sent.path = <<SegApi, DotDot, SecretCsv>>
    /\ sent.resp.status = 404
    /\ Lookup(fs, ROOT_DIR, SecretCsv) # Absent

====
